---- MODULE Spec2Model ----
(***************************************************************************)
(* A model of the line server of src/src/main.rs: the accept loop of       *)
(* LineServer::run, the handler task spawned per connection (a select!     *)
(* between the cancellation token and handle_connection), the request loop *)
(* of handle_connection, handle_get_request and read_line_from_file.       *)
(*                                                                         *)
(* Text is modelled as sequences of one-character strings, so that trim,   *)
(* starts_with, replace, parse::<usize> and the line splitting of          *)
(* BufReader::lines are computed as the code computes them.                *)
(*                                                                         *)
(* Every .await of the code is a point where the task may be suspended;    *)
(* the model has one action per stretch of code between two such points.   *)
(* tokio::select! without `biased` polls its branches in a random order,   *)
(* so when two branches are ready either may be taken: both actions are    *)
(* enabled.  When a branch of select! completes the other futures are      *)
(* dropped before the branch's handler runs.                               *)
(***************************************************************************)
EXTENDS Integers, Sequences, FiniteSets, TLC

\* ------------------------------------------------------------------ bounds
\* Connections the clients open during a run.
MaxConns == 2
\* Input events (a line, an end of stream, a read error) the handlers read
\* from the clients during a run, over all connections.
MaxSend == 2
\* Records of the largest backing file.
MaxFileLines == 2
\* Faults of the environment during a run: lookups that meet an I/O error of
\* the file, and connections that break for writing.
MaxFaults == 1

Conns == 1..MaxConns

\* -------------------------------------------------------------------- text
LF == "\n"
CR == "\r"
\* The white space str::trim removes, among the characters used here.
WhiteSpace == {" ", "\t", CR, LF}
Digits == <<"0", "1", "2", "3", "4", "5", "6", "7", "8", "9">>
DigitSet == {Digits[i] : i \in 1..10}
DigitVal(ch) == (CHOOSE i \in 1..10 : Digits[i] = ch) - 1

GET == <<"G", "E", "T">>
GETSP == <<"G", "E", "T", " ">>
SHUTDOWN == <<"S", "H", "U", "T", "D", "O", "W", "N">>
QUIT == <<"Q", "U", "I", "T">>
ERR == <<"E", "R", "R", LF>>

Last(s) == s[Len(s)]
Front(s) == SubSeq(s, 1, Len(s) - 1)
DropFirst(s, k) == SubSeq(s, k + 1, Len(s))

RECURSIVE TrimStart(_)
TrimStart(s) ==
    IF s # <<>> /\ Head(s) \in WhiteSpace THEN TrimStart(Tail(s)) ELSE s

RECURSIVE TrimEnd(_)
TrimEnd(s) ==
    IF s # <<>> /\ Last(s) \in WhiteSpace THEN TrimEnd(Front(s)) ELSE s

\* str::trim
Trim(s) == TrimEnd(TrimStart(s))

\* str::starts_with
StartsWith(s, p) == Len(s) >= Len(p) /\ SubSeq(s, 1, Len(p)) = p

\* str::replace: every non-overlapping occurrence of from, left to right.
RECURSIVE Replace(_, _, _)
Replace(s, from, to) ==
    IF s = <<>> THEN <<>>
    ELSE IF StartsWith(s, from)
         THEN to \o Replace(DropFirst(s, Len(from)), from, to)
         ELSE <<Head(s)>> \o Replace(Tail(s), from, to)

RECURSIVE DecimalValue(_, _)
DecimalValue(s, acc) ==
    IF s = <<>> THEN acc ELSE DecimalValue(Tail(s), 10 * acc + DigitVal(Head(s)))

\* str::parse::<usize>: an optional leading "+", then one or more decimal
\* digits.  (The texts of this model have at most a few digits, far from the
\* overflow of usize.)
ParseUsize(s) ==
    LET body == IF Len(s) > 1 /\ Head(s) = "+" THEN Tail(s) ELSE s
    IN  IF body # <<>> /\ \A i \in 1..Len(body) : body[i] \in DigitSet
        THEN [ok |-> TRUE, val |-> DecimalValue(body, 0)]
        ELSE [ok |-> FALSE, val |-> 0]

\* impl FromStr for TcpRequest
FromStr(s) ==
    IF StartsWith(s, GET) THEN "Get"
    ELSE IF s = SHUTDOWN THEN "Shutdown"
    ELSE IF s = QUIT THEN "Quit"
    ELSE "Err"

\* handle_get_request, up to the parse of the number.
GetNumber(get_str) == ParseUsize(Trim(Replace(get_str, GETSP, <<>>)))

\* ---------------------------------------------------------- backing file
\* Lines::next_line on the bytes left of a file: the text up to the first
\* "\n", without that "\n" and without one "\r" before it; the rest of the
\* bytes at end of file when they hold no "\n".
FirstLF(bytes) == CHOOSE i \in 1..Len(bytes) :
                     bytes[i] = LF /\ \A j \in 1..(i - 1) : bytes[j] # LF
HasLF(bytes) == \E i \in 1..Len(bytes) : bytes[i] = LF
StripCR(s) == IF s # <<>> /\ Last(s) = CR THEN Front(s) ELSE s

RECURSIVE FileLines(_)
FileLines(bytes) ==
    IF bytes = <<>> THEN <<>>
    ELSE IF HasLF(bytes)
         THEN <<StripCR(SubSeq(bytes, 1, FirstLF(bytes) - 1))>>
                 \o FileLines(DropFirst(bytes, FirstLF(bytes)))
         ELSE <<bytes>>

\* A scan that counts the lines from 0.
RECURSIVE ScanLinesFromZero(_, _, _)
ScanLinesFromZero(lines, index, line_number) ==
    IF lines = <<>>
    THEN [ok |-> FALSE, line |-> <<>>, upper |-> index + 1]
    ELSE IF index = line_number
         THEN [ok |-> TRUE, line |-> Head(lines), upper |-> 0]
         ELSE ScanLinesFromZero(Tail(lines), index + 1, line_number)

\* The loop of read_line_from_file over the lines still to read; index is the
\* number of lines read so far.
RECURSIVE ScanLines(_, _, _)
ScanLines(lines, index, line_number) ==
    IF lines = <<>>
    THEN [ok |-> FALSE, line |-> <<>>, upper |-> index + 1]
    ELSE IF index + 1 = line_number
         THEN [ok |-> TRUE, line |-> Head(lines), upper |-> 0]
         ELSE ScanLines(Tail(lines), index + 1, line_number)

\* read_line_from_file when the file opens and reads without an I/O error.
\* upper is the upper end of the range the error message reports.
ReadLineFromFile(bytes, line_number) ==
    ScanLines(FileLines(bytes), 0, line_number)

\* The line handle_get_request writes for a request, given whether the
\* file's I/O fails.
WriteLine(bytes, get_str, ioFails) ==
    LET parse_num == GetNumber(get_str)
        res == ReadLineFromFile(bytes, parse_num.val)
    IN  IF parse_num.ok /\ ~ioFails /\ res.ok THEN res.line \o <<LF>> ELSE ERR

\* The upper end of the range in the error handle_get_request prints for a
\* request whose number read_line_from_file does not reach; 0 when no such
\* error is printed.
RangeReported(bytes, get_str, ioFails) ==
    LET res == ReadLineFromFile(bytes, GetNumber(get_str).val)
    IN  IF ioFails \/ res.ok THEN 0 ELSE res.upper

\* The backing files of the model: n records "A", "B", ... each followed by
\* "\n" or "\r\n", the last one's terminator present or not.
Letters == <<"A", "B", "C", "D">>
RECURSIVE Encode(_, _, _, _)
Encode(i, n, crlf, finalNL) ==
    IF i > n THEN <<>>
    ELSE <<Letters[i]>>
            \o (IF i = n /\ ~finalNL THEN <<>>
                ELSE IF crlf THEN <<CR, LF>> ELSE <<LF>>)
            \o Encode(i + 1, n, crlf, finalNL)

FileDescs ==
    { [n |-> MaxFileLines, crlf |-> FALSE, finalNL |-> TRUE],
      [n |-> MaxFileLines, crlf |-> TRUE, finalNL |-> FALSE],
      [n |-> 0, crlf |-> FALSE, finalNL |-> TRUE] }
FileOf(d) == Encode(1, d.n, d.crlf, d.finalNL)
Files == {FileOf(d) : d \in FileDescs}

\* The input lines a client may send, as Lines::next_line returns them.
GetLine(n) == GETSP \o <<Digits[n + 1]>>
InputLines ==
    { GetLine(1), GetLine(MaxFileLines), GetLine(0), GetLine(MaxFileLines + 1),
      GETSP \o <<"x">>, GETSP \o GETSP \o <<"1">>,
      SHUTDOWN, <<" ">> \o QUIT \o <<CR>>, <<"h", "i">> }
\* The input lines that matter to the life of the tasks: a request that takes
\* a lookup and a write, the two that end a handler, and one that is ignored.
LifeLines == { GetLine(1), SHUTDOWN, <<" ">> \o QUIT \o <<CR>>, <<"h", "i">> }

\* ------------------------------------------------------------------- state
VARIABLES
    file,            \* the bytes of the backing file
    runPc,           \* where LineServer::run is
    token,           \* the CancellationToken: "Active" or "Cancelled"
    acceptDisabled,  \* the accept branch of the running select! is disabled
    trackerClosed,   \* TaskTracker::close has been called
    trackerLen,      \* the number of tasks the TaskTracker tracks
    backlog,         \* connections made by clients and not yet accepted
    pc,              \* per connection, where its handler task is
    holders,         \* per connection, who holds the Mutex of its stream
    sent,            \* the number of input events read from the clients
    log,             \* per connection, the GET requests read so far
    wl,              \* per connection, write_line of the request in flight
    out,             \* per connection, the responses written to it
    broken,          \* per connection, a write to it has failed
    ended,           \* per connection, how its handler task ended
    late             \* history, kept under FairSpec only: the connections
                     \* accepted when the token was cancelled

vars == <<file, runPc, token, acceptDisabled, trackerClosed, trackerLen,
          backlog, pc, holders, sent, log, wl, out, broken, ended, late>>

runVars == <<runPc, acceptDisabled, trackerClosed>>
getVars == <<log, wl, out, broken>>

\* The faults the environment has produced so far: the lookups that met an
\* I/O error and the connections that are broken for writing.
Faults ==
    Cardinality({e \in Conns \X (1..MaxSend) :
                    e[2] <= Len(log[e[1]]) /\ log[e[1]][e[2]].io})
        + Cardinality({c \in Conns : broken[c]})

\* The positions of a handler task in which handle_connection is running.
InLoop == {"reading", "lookup", "writing"}
\* The positions in which the task exists and has not finished.
Live == {"spawned", "reading", "lookup", "writing", "returning", "closing",
         "shutting"}

Connected(c) == pc[c] # "none" \/ \E i \in 1..Len(backlog) : backlog[i] = c

Init ==
    /\ file \in Files
    /\ runPc = "new"
    /\ token = "Active"
    /\ acceptDisabled = FALSE
    /\ trackerClosed = FALSE
    /\ trackerLen = 0
    /\ backlog = <<>>
    /\ pc = [c \in Conns |-> "none"]
    /\ holders = [c \in Conns |-> {}]
    /\ sent = 0
    /\ log = [c \in Conns |-> <<>>]
    /\ wl = [c \in Conns |-> <<>>]
    /\ out = [c \in Conns |-> <<>>]
    /\ broken = [c \in Conns |-> FALSE]
    /\ ended = [c \in Conns |-> "no"]
    /\ late = {}


\* ------------------------------------------------------------ the clients
\* What a client sends is read by the handler's next_line; a line that has
\* arrived and is not yet read changes nothing the server or the client can
\* see, so the arrival of an input and its reading are one step (ReadLine,
\* ReadEof, ReadError below).
\* A client connects; the connection waits in the listener's backlog.  The
\* listener exists from the bind until run returns.
Connect(c) ==
    /\ runPc \in {"loop", "waiting"}
    /\ ~Connected(c)
    /\ \A d \in Conns : d < c => Connected(d)
    /\ backlog' = Append(backlog, c)
    /\ UNCHANGED <<file, runVars, token, trackerLen, pc, holders, sent,
                   getVars, ended>>

\* -------------------------------------------------------- LineServer::run
\* TcpListener::bind succeeds.
Bind ==
    /\ runPc = "new"
    /\ runPc' = "loop"
    /\ UNCHANGED <<file, token, acceptDisabled, trackerClosed, trackerLen,
                   backlog, pc, holders, sent, getVars, ended>>

\* TcpListener::bind fails and run returns the error.
BindFails ==
    /\ runPc = "new"
    /\ runPc' = "bindFailed"
    /\ UNCHANGED <<file, token, acceptDisabled, trackerClosed, trackerLen,
                   backlog, pc, holders, sent, getVars, ended>>

\* An accept that still happens after the loop has been left.
AcceptAfterLoop ==
    /\ runPc \in {"loop", "waiting"}
    /\ ~acceptDisabled
    /\ backlog # <<>>
    /\ pc' = [pc EXCEPT ![Head(backlog)] = "spawned"]
    /\ trackerLen' = trackerLen + 1
    /\ backlog' = Tail(backlog)
    /\ UNCHANGED <<file, runVars, token, holders, sent, getVars, ended>>

\* An accept branch that starts the handler with tokio::spawn, outside the
\* tracker.
AcceptUntracked ==
    /\ runPc = "loop"
    /\ ~acceptDisabled
    /\ backlog # <<>>
    /\ pc' = [pc EXCEPT ![Head(backlog)] = "spawned"]
    /\ backlog' = Tail(backlog)
    /\ UNCHANGED <<file, runVars, token, trackerLen, holders, sent, getVars,
                   ended>>

\* The accept branch of the loop's select!: accept yields a connection and
\* tracker.spawn starts and registers its handler task.
Accept ==
    /\ runPc = "loop"
    /\ ~acceptDisabled
    /\ backlog # <<>>
    /\ pc' = [pc EXCEPT ![Head(backlog)] = "spawned"]
    /\ trackerLen' = trackerLen + 1
    /\ backlog' = Tail(backlog)
    /\ UNCHANGED <<file, runVars, token, holders, sent, getVars, ended>>

\* accept yields an error for a pending connection (the process is out of
\* file descriptors, say): the pattern Ok((stream, _)) does not match, and
\* select! disables the branch for the rest of this call.
AcceptError ==
    /\ runPc = "loop"
    /\ ~acceptDisabled
    /\ backlog # <<>>
    /\ acceptDisabled' = TRUE
    /\ UNCHANGED <<file, runPc, trackerClosed, token, trackerLen, backlog, pc,
                   holders, sent, getVars, ended>>

\* A cancellation branch that leaves the loop without closing the tracker.
LoopCancelledNoClose ==
    /\ runPc = "loop"
    /\ token = "Cancelled"
    /\ acceptDisabled' = FALSE
    /\ runPc' = "waiting"
    /\ UNCHANGED <<file, token, trackerClosed, trackerLen, backlog, pc, holders,
                   sent, getVars, ended>>

\* The cancellation branch of the loop's select!: tracker.close() and break.
LoopCancelled ==
    /\ runPc = "loop"
    /\ token = "Cancelled"
    /\ trackerClosed' = TRUE
    /\ acceptDisabled' = FALSE
    /\ runPc' = "waiting"
    /\ UNCHANGED <<file, token, trackerLen, backlog, pc, holders, sent,
                   getVars, ended>>

\* A run that returns as soon as the tracker is closed, without waiting for
\* its tasks.
TrackerWaitClosedOnly ==
    /\ runPc = "waiting"
    /\ trackerClosed
    /\ runPc' = "returned"
    /\ UNCHANGED <<file, token, acceptDisabled, trackerClosed, trackerLen,
                   backlog, pc, holders, sent, getVars, ended>>

\* tracker.wait() completes, when the tracker is closed and empty, and run
\* returns Ok(()).
TrackerWait ==
    /\ runPc = "waiting"
    /\ trackerClosed
    /\ trackerLen = 0
    /\ runPc' = "returned"
    /\ UNCHANGED <<file, token, acceptDisabled, trackerClosed, trackerLen,
                   backlog, pc, holders, sent, getVars, ended>>

\* ------------------------------------------------------- the handler task
\* A token that forgets it was cancelled when it is cancelled again.
CancelToggles(t) == IF t = "Active" THEN "Cancelled" ELSE "Active"

\* CancellationToken::cancel on a token in state t: the token is cancelled,
\* whatever it was.
Cancel(t) == "Cancelled"

\* The task of connection c finishes: its futures and the stream are
\* dropped, which releases the Mutex and closes the socket, and the tracker
\* counts one task less.
Finish(c, who, how) ==
    /\ pc' = [pc EXCEPT ![c] = "done"]
    /\ holders' = [holders EXCEPT ![c] = @ \ {who}]
    /\ trackerLen' = trackerLen - 1
    /\ ended' = [ended EXCEPT ![c] = how]
    /\ wl' = [wl EXCEPT ![c] = <<>>]

\* A request loop that stores its guard in the shared stream state, where the
\* drop of the handle_connection future does not release it.
LoopStartKeepsGuard(c) ==
    /\ pc[c] = "spawned"
    /\ holders[c] = {}
    /\ holders' = [holders EXCEPT ![c] = {"loop", "kept"}]
    /\ pc' = [pc EXCEPT ![c] = "reading"]
    /\ UNCHANGED <<file, runVars, token, trackerLen, backlog, sent,
                   getVars, ended>>

\* handle_connection starts: stream.lock().await
LoopStart(c) ==
    /\ pc[c] = "spawned"
    /\ holders[c] = {}
    /\ holders' = [holders EXCEPT ![c] = {"loop"}]
    /\ pc' = [pc EXCEPT ![c] = "reading"]
    /\ UNCHANGED <<file, runVars, token, trackerLen, backlog, sent,
                   getVars, ended>>

\* A loop whose QUIT arm lacks the break: the handler goes on reading.
ReadLineQuitContinues(c, line) ==
    /\ pc[c] = "reading"
    /\ sent < MaxSend
    /\ sent' = sent + 1
    /\ LET trimmed_line == Trim(line)
           request == FromStr(trimmed_line)
       IN  CASE request = "Get" ->
                  /\ log' = [log EXCEPT
                               ![c] = Append(@, [line |-> trimmed_line, io |-> FALSE,
                                          upper |-> 0])]
                  /\ IF GetNumber(trimmed_line).ok
                     THEN pc' = [pc EXCEPT ![c] = "lookup"] /\ wl' = wl
                     ELSE /\ pc' = [pc EXCEPT ![c] = "writing"]
                          /\ wl' = [wl EXCEPT ![c] = ERR]
                  /\ UNCHANGED <<token, trackerLen, holders, ended>>
             [] request = "Shutdown" ->
                  /\ token' = Cancel(token)
                  /\ pc' = [pc EXCEPT ![c] = "returning"]
                  /\ UNCHANGED <<trackerLen, holders, ended, wl, log>>
             [] request = "Quit" ->
                  /\ ended' = [ended EXCEPT ![c] = "quit"]
                  /\ UNCHANGED <<token, trackerLen, holders, pc, wl, log>>
             [] request = "Err" ->
                  UNCHANGED <<token, trackerLen, holders, ended, pc, wl, log>>
    /\ UNCHANGED <<file, runVars, backlog, out, broken>>

\* A request loop that closes the connection on a line it cannot classify.
ReadLineInvalidCloses(c, line) ==
    /\ pc[c] = "reading"
    /\ sent < MaxSend
    /\ sent' = sent + 1
    /\ LET trimmed_line == Trim(line)
           request == FromStr(trimmed_line)
       IN  CASE request = "Get" ->
                  /\ log' = [log EXCEPT
                               ![c] = Append(@, [line |-> trimmed_line, io |-> FALSE,
                                          upper |-> 0])]
                  /\ IF GetNumber(trimmed_line).ok
                     THEN pc' = [pc EXCEPT ![c] = "lookup"] /\ wl' = wl
                     ELSE /\ pc' = [pc EXCEPT ![c] = "writing"]
                          /\ wl' = [wl EXCEPT ![c] = ERR]
                  /\ UNCHANGED <<token, trackerLen, holders, ended>>
             [] request = "Shutdown" ->
                  /\ token' = Cancel(token)
                  /\ pc' = [pc EXCEPT ![c] = "returning"]
                  /\ UNCHANGED <<trackerLen, holders, ended, wl, log>>
             [] request = "Quit" ->
                  /\ Finish(c, "loop", "quit")
                  /\ UNCHANGED <<token, log>>
             [] request = "Err" ->
                  /\ Finish(c, "loop", "error")
                  /\ UNCHANGED <<token, log>>
    /\ UNCHANGED <<file, runVars, backlog, out, broken>>

\* lines.next_line() yields a line the client has sent: the body of the while
\* loop up to its next .await.  After SHUTDOWN the token is cancelled at once
\* (token.cancel() publishes it to every thread of the runtime) while the task
\* has still to leave the loop and end: see LoopReturns.
ReadLine(c, line) ==
    /\ pc[c] = "reading"
    /\ sent < MaxSend
    /\ sent' = sent + 1
    /\ LET trimmed_line == Trim(line)
           request == FromStr(trimmed_line)
       IN  CASE request = "Get" ->
                  /\ log' = [log EXCEPT
                               ![c] = Append(@, [line |-> trimmed_line, io |-> FALSE,
                                          upper |-> 0])]
                  /\ IF GetNumber(trimmed_line).ok
                     THEN pc' = [pc EXCEPT ![c] = "lookup"] /\ wl' = wl
                     ELSE /\ pc' = [pc EXCEPT ![c] = "writing"]
                          /\ wl' = [wl EXCEPT ![c] = ERR]
                  /\ UNCHANGED <<token, trackerLen, holders, ended>>
             [] request = "Shutdown" ->
                  /\ token' = Cancel(token)
                  /\ pc' = [pc EXCEPT ![c] = "returning"]
                  /\ UNCHANGED <<trackerLen, holders, ended, wl, log>>
             [] request = "Quit" ->
                  /\ Finish(c, "loop", "quit")
                  /\ UNCHANGED <<token, log>>
             [] request = "Err" ->
                  UNCHANGED <<token, trackerLen, holders, ended, pc, wl, log>>
    /\ UNCHANGED <<file, runVars, backlog, out, broken>>

\* After token.cancel(): the break, the return of handle_connection, the
\* select! arm of the task and the end of its async block, where the stream
\* and its guard are dropped and the tracker forgets the task.  All of it is
\* one poll of the task, so the cancellation branch of its select! cannot
\* come in between; the other tasks and run, on other threads, can.
LoopReturns(c) ==
    /\ pc[c] = "returning"
    /\ Finish(c, "loop", "shutdown")
    /\ UNCHANGED <<file, runVars, token, backlog, sent, log, out, broken>>

\* An end of stream that is taken for a request to shut the server down.
ReadEofCancels(c) ==
    /\ pc[c] = "reading"
    /\ sent < MaxSend
    /\ sent' = sent + 1
    /\ token' = Cancel(token)
    /\ Finish(c, "loop", "eof")
    /\ UNCHANGED <<file, runVars, backlog, log, out, broken>>

\* lines.next_line() yields None: the client has closed its side.
ReadEof(c) ==
    /\ pc[c] = "reading"
    /\ sent < MaxSend
    /\ sent' = sent + 1
    /\ Finish(c, "loop", "eof")
    /\ UNCHANGED <<file, runVars, token, backlog, log, out, broken>>

\* lines.next_line() yields an error (a reset connection, bytes that are not
\* UTF-8), which `?` returns from handle_connection.
ReadError(c) ==
    /\ pc[c] = "reading"
    /\ sent < MaxSend
    /\ sent' = sent + 1
    /\ Finish(c, "loop", "error")
    /\ UNCHANGED <<file, runVars, token, backlog, log, out, broken>>

\* A lookup whose response is left to be written later while the loop goes
\* back to reading.
LookupDetached(c) ==
    /\ pc[c] = "lookup"
    /\ \E ioFails \in BOOLEAN :
         /\ ioFails => Faults < MaxFaults
         /\ wl' = [wl EXCEPT ![c] = WriteLine(file, Last(log[c]).line, ioFails)]
         /\ log' = [log EXCEPT ![c][Len(log[c])] =
                        [@ EXCEPT !.io = ioFails,
                                  !.upper = RangeReported(file, Last(log[c]).line,
                                                          ioFails)]]
    /\ pc' = [pc EXCEPT ![c] = "reading"]
    /\ UNCHANGED <<file, runVars, token, trackerLen, backlog, holders,
                   sent, out, broken, ended>>

\* read_line_from_file completes, with or without an I/O error of the file,
\* and handle_get_request sets write_line.
Lookup(c) ==
    /\ pc[c] = "lookup"
    /\ \E ioFails \in BOOLEAN :
         /\ ioFails => Faults < MaxFaults
         /\ wl' = [wl EXCEPT ![c] = WriteLine(file, Last(log[c]).line, ioFails)]
         /\ log' = [log EXCEPT ![c][Len(log[c])] =
                        [@ EXCEPT !.io = ioFails,
                                  !.upper = RangeReported(file, Last(log[c]).line,
                                                          ioFails)]]
    /\ pc' = [pc EXCEPT ![c] = "writing"]
    /\ UNCHANGED <<file, runVars, token, trackerLen, backlog, holders,
                   sent, out, broken, ended>>

\* A write that takes write_line from a buffer shared by the connections.
WriteOkShared(c) ==
    /\ pc[c] = "writing"
    /\ ~broken[c]
    /\ \E d \in Conns :
         /\ pc[d] = "writing"
         /\ out' = [out EXCEPT ![c] = Append(@, wl[d])]
    /\ wl' = [wl EXCEPT ![c] = <<>>]
    /\ pc' = [pc EXCEPT ![c] = "reading"]
    /\ UNCHANGED <<file, runVars, token, trackerLen, backlog, holders,
                   sent, log, broken, ended>>

\* write_all completes: the client receives write_line.  (The few bytes of a
\* response are written in one piece: a write_all dropped by the cancellation
\* branch before it completes has written nothing.)
WriteOk(c) ==
    /\ pc[c] = "writing"
    /\ ~broken[c]
    /\ out' = [out EXCEPT ![c] = Append(@, wl[c])]
    /\ wl' = [wl EXCEPT ![c] = <<>>]
    /\ pc' = [pc EXCEPT ![c] = "reading"]
    /\ UNCHANGED <<file, runVars, token, trackerLen, backlog, holders,
                   sent, log, broken, ended>>

\* A write whose error is returned with ? and ends handle_connection.
WriteFailsPropagates(c) ==
    /\ pc[c] = "writing"
    /\ broken[c] \/ Faults < MaxFaults
    /\ broken' = [broken EXCEPT ![c] = TRUE]
    /\ Finish(c, "loop", "error")
    /\ UNCHANGED <<file, runVars, token, backlog, sent, log, out>>

\* write_all fails (the connection is broken, and stays so): the error is
\* printed and handle_get_request returns Ok(()).
WriteFails(c) ==
    /\ pc[c] = "writing"
    /\ broken[c] \/ Faults < MaxFaults
    /\ broken' = [broken EXCEPT ![c] = TRUE]
    /\ wl' = [wl EXCEPT ![c] = <<>>]
    /\ pc' = [pc EXCEPT ![c] = "reading"]
    /\ UNCHANGED <<file, runVars, token, trackerLen, backlog, holders,
                   sent, log, out, ended>>

\* A cancellation branch whose handler runs while the handle_connection
\* future, and the MutexGuard it holds, are still alive.
CancelWinsKeepsGuard(c) ==
    /\ token = "Cancelled"
    /\ pc[c] \in {"spawned"} \cup InLoop
    /\ pc' = [pc EXCEPT ![c] = "closing"]
    /\ wl' = [wl EXCEPT ![c] = <<>>]
    /\ UNCHANGED <<file, runVars, token, trackerLen, backlog, holders, sent,
                   log, out, broken, ended>>

\* A cancellation branch woken only in the tasks that were waiting when the
\* token was cancelled: a task spawned later never sees it.
CancelWinsOnlyWaiters(c) ==
    /\ token = "Cancelled"
    /\ c \notin late
    /\ pc[c] \in {"spawned"} \cup InLoop
    /\ pc' = [pc EXCEPT ![c] = "closing"]
    /\ holders' = [holders EXCEPT ![c] = @ \ {"loop"}]
    /\ wl' = [wl EXCEPT ![c] = <<>>]
    /\ UNCHANGED <<file, runVars, token, trackerLen, backlog, sent, log,
                   out, broken, ended>>

\* A closer that is a task of its own instead of a branch of the handler's
\* select!: it runs on cancellation whether or not the request loop is over.
CancelWinsSeparateTask(c) ==
    /\ token = "Cancelled"
    /\ pc[c] \in {"spawned", "done"} \cup InLoop
    /\ pc' = [pc EXCEPT ![c] = "closing"]
    /\ holders' = [holders EXCEPT ![c] = @ \ {"loop"}]
    /\ wl' = [wl EXCEPT ![c] = <<>>]
    /\ UNCHANGED <<file, runVars, token, trackerLen, backlog, sent, log,
                   out, broken, ended>>

\* The cancellation branch of the task's select! completes: the
\* handle_connection future is dropped, with the MutexGuard it holds.
CancelWins(c) ==
    /\ token = "Cancelled"
    /\ pc[c] \in {"spawned"} \cup InLoop
    /\ pc' = [pc EXCEPT ![c] = "closing"]
    /\ holders' = [holders EXCEPT ![c] = @ \ {"loop"}]
    /\ wl' = [wl EXCEPT ![c] = <<>>]
    /\ UNCHANGED <<file, runVars, token, trackerLen, backlog, sent, log,
                   out, broken, ended>>

\* A closer that shuts the stream down without taking its lock.
CloserSkipsLock(c) ==
    /\ pc[c] = "closing"
    /\ pc' = [pc EXCEPT ![c] = "shutting"]
    /\ UNCHANGED <<file, runVars, token, trackerLen, backlog, holders, sent,
                   getVars, ended>>

\* The handler of the cancellation branch: cloned_stream.lock().await
CloserLock(c) ==
    /\ pc[c] = "closing"
    /\ holders[c] = {}
    /\ holders' = [holders EXCEPT ![c] = {"closer"}]
    /\ pc' = [pc EXCEPT ![c] = "shutting"]
    /\ UNCHANGED <<file, runVars, token, trackerLen, backlog, sent,
                   getVars, ended>>

\* acquire_stream.shutdown().await, its result ignored; the task ends.
CloserShutdown(c) ==
    /\ pc[c] = "shutting"
    /\ Finish(c, "closer", "forced")
    /\ UNCHANGED <<file, runVars, token, backlog, sent, log, out, broken>>

\* ----------------------------------------------------------- specification
StepOver(lines) ==
    \/ \E c \in Conns : Connect(c)
    \/ Bind
    \/ BindFails
    \/ Accept
    \/ AcceptError
    \/ LoopCancelled
    \/ TrackerWait
    \/ \E c \in Conns : LoopStart(c)
    \/ \E c \in Conns, line \in lines : ReadLine(c, line)
    \/ \E c \in Conns : LoopReturns(c)
    \/ \E c \in Conns : ReadEof(c)
    \/ \E c \in Conns : ReadError(c)
    \/ \E c \in Conns : Lookup(c)
    \/ \E c \in Conns : WriteOk(c)
    \/ \E c \in Conns : WriteFails(c)
    \/ \E c \in Conns : CancelWins(c)
    \/ \E c \in Conns : CloserLock(c)
    \/ \E c \in Conns : CloserShutdown(c)

\* The connections accepted in a step taken with the token cancelled.
AcceptedLate ==
    IF token = "Cancelled"
    THEN {c \in Conns : pc[c] = "none" /\ pc'[c] = "spawned"}
    ELSE {}

\* A step of the server over the given input lines, with or without the
\* history of the late accepts.
NextOver(lines, history) ==
    /\ StepOver(lines)
    /\ late' = IF history THEN late \cup AcceptedLate ELSE late

Next == NextOver(InputLines, FALSE)

Spec == Init /\ [][Next]_vars

\* The server under the scheduling the runtime guarantees: a task whose
\* wake-up condition holds is polled again.  Once the token is cancelled every
\* select! waiting on it is woken and its cancellation branch is ready at each
\* poll; an uncontended lock, a socket shutdown and the wait on an empty
\* closed tracker complete.  The clients send the lines of LifeLines and the
\* file is the first of Files.
InitLife == Init /\ file = FileOf([n |-> MaxFileLines, crlf |-> FALSE, finalNL |-> TRUE])
NextLife == NextOver(LifeLines, TRUE)
FairSpec ==
    /\ InitLife
    /\ [][NextLife]_vars
    /\ WF_vars(LoopCancelled /\ late' = late)
    /\ WF_vars(TrackerWait /\ late' = late)
    /\ \A c \in Conns : WF_vars(LoopReturns(c) /\ late' = late)
    /\ \A c \in Conns : WF_vars(CancelWins(c) /\ late' = late)
    /\ \A c \in Conns : WF_vars(CloserLock(c) /\ late' = late)
    /\ \A c \in Conns : WF_vars(CloserShutdown(c) /\ late' = late)

TypeOK ==
    /\ file \in Files
    /\ runPc \in {"new", "bindFailed", "loop", "waiting", "returned"}
    /\ token \in {"Active", "Cancelled"}
    /\ acceptDisabled \in BOOLEAN
    /\ trackerClosed \in BOOLEAN
    /\ trackerLen \in 0..MaxConns
    /\ \A c \in Conns : pc[c] \in {"none", "done"} \cup Live
    /\ \A c \in Conns : holders[c] \subseteq {"loop", "closer"}
    /\ sent \in 0..MaxSend
    /\ \A c \in Conns : ended[c] \in
          {"no", "shutdown", "quit", "eof", "error", "forced"}
    /\ late \subseteq Conns
    /\ \A c \in Conns : \A k \in 1..Len(log[c]) :
          log[c][k].io \in BOOLEAN /\ log[c][k].upper \in 0..(MaxFileLines + 1)


\* ------------------------------------------------------------- properties
\* What the claims expect of a request, stated from the file's records and
\* the request's text rather than from the code's scan and parse.
DescOf(bytes) == CHOOSE d \in FileDescs : FileOf(d) = bytes
TotalLines == DescOf(file).n
Record(n) == <<Letters[n]>>
\* The text after the GET prefix, and whether it is a decimal number.
TextAfterGet(line) == Trim(DropFirst(line, Len(GET)))
IsNumber(t) == t # <<>> /\ \A i \in 1..Len(t) : t[i] \in DigitSet
\* Entry e of a connection's log is a GET n with 1 <= n <= total lines whose
\* lookup met no I/O error.
ValidGet(e, n) == n \in 1..TotalLines /\ e.line = GetLine(n) /\ ~e.io
\* Entry e is one of the failing GETs: not a number, 0, beyond the file, or
\* an I/O error.
FailingGet(e) ==
    \/ e.io
    \/ ~IsNumber(TextAfterGet(e.line))
    \/ DecimalValue(TextAfterGet(e.line), 0) = 0
    \/ DecimalValue(TextAfterGet(e.line), 0) > TotalLines
\* A step that spawns no handler task.
NoSpawn == \A c \in Conns : pc[c] = "none" => pc'[c] = "none"

\* C1: once the signal is Cancelled (a handler has read SHUTDOWN), every
\* connection whose handler task is live, an idle one included, is eventually
\* closed: its task finishes.
C1_OpenConnectionsEventuallyClosed ==
    \A c \in Conns : (token = "Cancelled" /\ pc[c] \in Live) ~> (pc[c] = "done")
C1_Witness ==
    \E c, d \in Conns :
        /\ ended[c] = "shutdown"
        /\ ended[d] = "forced"
        /\ log[d] = <<>>

\* C2: once the signal is Cancelled, run eventually returns Ok(()).
C2_RunEventuallyReturns == (token = "Cancelled") ~> (runPc = "returned")
C2_Witness ==
    /\ runPc = "returned"
    /\ \E c \in Conns : ended[c] = "forced"
    /\ \E c \in Conns : ended[c] = "shutdown"

\* C3: when run has returned, no handler task is live.
C3_NoLiveTaskAfterReturn == runPc = "returned" => \A c \in Conns : pc[c] \notin Live
C3_Witness ==
    /\ runPc = "returned"
    /\ \A c \in Conns : pc[c] = "done"

\* C4 as claimed: in no state where the signal is Cancelled is a connection
\* accepted and a handler spawned.
C4_NoAcceptOnceCancelled ==
    [][(token = "Cancelled" => NoSpawn)]_vars
\* C4 as amended: once the accept loop has taken its cancellation branch (run
\* is past the loop), no connection is accepted and no handler is spawned.
C4_NoAcceptOnceLoopLeft ==
    [][(runPc \in {"waiting", "returned"} => NoSpawn)]_vars
C4_Witness ==
    /\ runPc = "returned"
    /\ token = "Cancelled"
    /\ backlog # <<>>

\* C5: a Cancelled signal stays Cancelled in every step, and a handler that
\* reads SHUTDOWN when the signal is already Cancelled leaves it Cancelled,
\* writes nothing and ends as after a first SHUTDOWN.
C5_SignalMonotonic ==
    [][(token = "Cancelled" =>
         /\ token' = "Cancelled"
         /\ \A c \in Conns :
              /\ (pc[c] = "reading" /\ pc'[c] = "returning") =>
                     /\ out'[c] = out[c]
                     /\ ended'[c] = "no"
                     /\ runPc' = runPc
              /\ (ended[c] = "no" /\ ended'[c] = "shutdown") =>
                     /\ pc[c] = "returning" /\ pc'[c] = "done"
                     /\ out'[c] = out[c]
                     /\ holders'[c] = {}
                     /\ runPc' = runPc)]_vars
C5_Witness ==
    \E c, d \in Conns : c # d /\ ended[c] = "shutdown" /\ ended[d] = "shutdown"

\* C6: the request loop and the closer never hold the stream's lock together,
\* and each holds it whenever it operates on the stream.
C6_StreamMutualExclusion ==
    \A c \in Conns :
        /\ Cardinality(holders[c]) <= 1
        /\ pc[c] \in InLoop => holders[c] = {"loop"}
        /\ pc[c] = "shutting" => holders[c] = {"closer"}
C6_Witness ==
    \E c \in Conns : pc[c] = "shutting" /\ holders[c] = {"closer"} /\ out[c] # <<>>

\* C7: a handler about to read a line has no request in flight, at most one
\* request is ever in flight, and the k-th response written on a connection
\* is the one for the k-th GET read on it.
C7_RequestsInOrder ==
    \A c \in Conns :
        /\ Len(out[c]) <= Len(log[c])
        /\ ~broken[c] => Len(log[c]) - Len(out[c]) \in {0, 1}
        /\ (~broken[c] /\ pc[c] \in {"reading"}) => Len(out[c]) = Len(log[c])
        /\ pc[c] \in {"lookup", "writing"} => Len(out[c]) < Len(log[c])
        /\ \A k \in 1..Len(out[c]) :
              out[c][k] = WriteLine(file, log[c][k].line, log[c][k].io)
C7_Witness ==
    \E c \in Conns :
        /\ Len(out[c]) = 2
        /\ out[c][1] # out[c][2]

\* C8: when two connections have each been answered a GET of a valid line
\* number, the two numbers distinct, each has received its own line.
C8_NoCrossTalk ==
    \A c, d \in Conns : \A i \in 1..Len(out[c]) : \A j \in 1..Len(out[d]) :
        \A n, m \in 1..TotalLines :
            (c # d /\ n # m /\ ValidGet(log[c][i], n) /\ ValidGet(log[d][j], m))
                => out[c][i] = Record(n) \o <<LF>> /\ out[d][j] = Record(m) \o <<LF>>
C8_Witness ==
    \E c, d \in Conns : \E n, m \in 1..TotalLines :
        /\ c # d /\ n # m
        /\ Len(out[c]) = 1 /\ Len(out[d]) = 1
        /\ ValidGet(log[c][1], n) /\ ValidGet(log[d][1], m)

\* C9: the write that completes a GET n with 1 <= n <= total lines appends
\* exactly the n-th record and one newline, and leaves the handler reading.
C9_ValidGetWritesLine ==
    [][(\A c \in Conns :
          out'[c] # out[c] =>
              \A n \in 1..TotalLines :
                  ValidGet(Last(log[c]), n) =>
                      /\ out'[c] = Append(out[c], Record(n) \o <<LF>>)
                      /\ pc'[c] = "reading"
                      /\ ended'[c] = "no")]_vars
C9_Witness ==
    \E c \in Conns :
        /\ pc[c] = "reading"
        /\ Len(out[c]) = 1
        /\ ValidGet(log[c][1], TotalLines)
        /\ TotalLines > 1

\* C10: the response to a GET whose text is not a number, whose number is 0
\* or beyond the file, or whose lookup meets an I/O error is ERR and a
\* newline; the handler is left reading and the signal as it was.
C10_FailingGetWritesErr ==
    [][(\A c \in Conns :
          (out'[c] # out[c] /\ FailingGet(Last(log[c]))) =>
              /\ out'[c] = Append(out[c], ERR)
              /\ pc'[c] = "reading"
              /\ token' = token)]_vars


\* The input lines that are QUIT once trimmed.
C11_Lines == { line \in InputLines : Trim(line) = QUIT }

\* C11: the step in which a handler reads QUIT writes nothing and ends its
\* loop, and from then on nothing is written to that connection and no
\* request is read on it.
C11_QuitWritesNothing ==
    [][(\A c \in Conns :
          /\ (sent' # sent /\ \E line \in C11_Lines : ReadLine(c, line))
                => pc'[c] = "done" /\ out'[c] = out[c] /\ ended'[c] = "quit"
          /\ ended[c] = "quit"
                => pc'[c] = "done" /\ out'[c] = out[c] /\ log'[c] = log[c])]_vars
C11_Witness ==
    \E c \in Conns : ended[c] = "quit" /\ Len(out[c]) = 1 /\ sent = MaxSend


\* C12: the step in which a handler ends by QUIT, end of stream or a read
\* error leaves the signal, the accept loop, the pending connections and
\* every other connection and handler as they were.
C12_EndOfOneHandlerOnly ==
    [][(\A c \in Conns :
          (ended[c] = "no" /\ ended'[c] \in {"quit", "eof", "error"}) =>
              /\ token' = token
              /\ runVars' = runVars
              /\ backlog' = backlog
              /\ (ENABLED Accept)' = ENABLED Accept
              /\ \A d \in Conns \ {c} :
                    /\ pc'[d] = pc[d]
                    /\ holders'[d] = holders[d]
                    /\ log'[d] = log[d]
                    /\ wl'[d] = wl[d]
                    /\ out'[d] = out[d]
                    /\ broken'[d] = broken[d]
                    /\ ended'[d] = ended[d])]_vars
C12_Witness ==
    \E c, d \in Conns :
        /\ ended[c] \in {"eof", "error"}
        /\ pc[d] = "lookup"
        /\ token = "Active"
        /\ runPc = "loop"


\* A line that, trimmed, neither starts with GET nor is SHUTDOWN or QUIT, and
\* such lines: the one of InputLines and some more.
InvalidLine(line) ==
    LET t == Trim(line)
    IN  /\ ~(Len(t) >= Len(GET) /\ SubSeq(t, 1, Len(GET)) = GET)
        /\ t # SHUTDOWN
        /\ t # QUIT
C13_Lines ==
    { line \in InputLines \cup
                 { <<>>, QUIT \o <<" ", "x">>, <<"g", "e", "t", " ", "1">> } :
        InvalidLine(line) }

\* C13: the step in which a handler reads a line that, trimmed, neither starts
\* with GET nor is SHUTDOWN or QUIT writes nothing, leaves the signal as it
\* was and leaves the handler reading, with the lock of its stream, so that
\* the next line of the connection is read by the same loop.
C13_InvalidLineIgnored ==
    [][(\A c \in Conns :
          (sent' # sent /\ \E line \in C13_Lines : ReadLine(c, line)) =>
              /\ out' = out
              /\ token' = token
              /\ pc'[c] = "reading"
              /\ holders'[c] = {"loop"}
              /\ ended'[c] = "no"
              /\ log'[c] = log[c]
              /\ wl'[c] = wl[c])]_vars
C13_Witness ==
    \E c \in Conns :
        /\ sent = MaxSend
        /\ Len(log[c]) = 1
        /\ pc[c] = "lookup"
        /\ \A d \in Conns \ {c} : pc[d] = "none"


\* C14: the step in which the write of a response fails leaves the handler
\* reading, its loop not ended and still holding the stream, with nothing
\* written and nothing left to write for that request; and a connection never
\* has more responses than requests.
C14_WriteFailureContinues ==
    /\ [][(\A c \in Conns :
             WriteFails(c) =>
                 /\ pc'[c] = "reading"
                 /\ ended'[c] = "no"
                 /\ holders'[c] = {"loop"}
                 /\ out'[c] = out[c]
                 /\ log'[c] = log[c]
                 /\ wl'[c] = <<>>
                 /\ token' = token)]_vars
    /\ [](\A c \in Conns : Len(out[c]) <= Len(log[c]))
C14_Witness ==
    \E c \in Conns :
        /\ broken[c]
        /\ Len(log[c]) = 2
        /\ out[c] = <<>>
        /\ pc[c] = "writing"


\* Entry e is a GET whose number is 0 or beyond the file and whose lookup met
\* no I/O error.
OutOfRangeGet(e) ==
    /\ ~e.io
    /\ IsNumber(TextAfterGet(e.line))
    /\ LET n == DecimalValue(TextAfterGet(e.line), 0)
       IN  n = 0 \/ n > TotalLines

\* C15: whenever a lookup ends before reaching the requested number, the
\* range its error reports runs from 1 to the number of lines of the file.
C15_OutOfRangeReportsTotal ==
    \A c \in Conns : \A k \in 1..Len(log[c]) :
        (OutOfRangeGet(log[c][k]) /\ (k < Len(log[c]) \/ pc[c] # "lookup"))
            => log[c][k].upper = TotalLines


\* C16: the accept of a connection when the signal is already Cancelled
\* spawns a handler that the tracker counts; while that handler is live the
\* tracker is not empty and run has not returned; and the handler eventually
\* finishes.
C16_LateHandlerCovered ==
    /\ [][(\A c \in Conns :
             (c \notin late /\ c \in late') =>
                 /\ token = "Cancelled"
                 /\ pc'[c] = "spawned"
                 /\ trackerLen' = trackerLen + 1
                 /\ ~trackerClosed')]_vars
    /\ [](\A c \in late :
             pc[c] \in Live => trackerLen >= 1 /\ runPc # "returned")
    /\ \A c \in Conns : (c \in late) ~> (pc[c] = "done")
C16_Witness ==
    \E c \in late : ended[c] = "forced" /\ runPc = "returned"


\* The two ways the race in a handler task is decided.
CancelBranchWon(c) == pc[c] \in {"closing", "shutting"} \/ ended[c] = "forced"
LoopCompleted(c) ==
    pc[c] = "returning" \/ ended[c] \in {"shutdown", "quit", "eof", "error"}

\* C17: once the cancellation branch of a task has won, no step reads a
\* request, looks a line up or writes a response on its connection, and the
\* request loop never holds the stream again; once the request loop has
\* completed, the task is finished and stays so, and the closer never runs.
C17_OneBranchTakesEffect ==
    /\ [](\A c \in Conns : ~(CancelBranchWon(c) /\ LoopCompleted(c)))
    /\ [][(\A c \in Conns :
             /\ CancelBranchWon(c) =>
                   /\ pc[c] \notin InLoop /\ pc'[c] \notin InLoop \cup {"spawned"}
                   /\ log'[c] = log[c]
                   /\ out'[c] = out[c]
                   /\ wl'[c] = <<>>
                   /\ "loop" \notin holders'[c]
             /\ LoopCompleted(c) =>
                   /\ pc[c] \in {"returning", "done"}
                   /\ pc'[c] \in {"returning", "done"}
                   /\ ended'[c] \in {ended[c], "shutdown"}
                   /\ log'[c] = log[c]
                   /\ out'[c] = out[c]
                   /\ "closer" \notin holders'[c])]_vars
C17_Witness ==
    \E c, d \in Conns :
        /\ ended[c] = "forced"
        /\ Len(log[c]) = 1
        /\ out[c] = <<>>
        /\ ended[d] = "shutdown"


\* C18: the request loop holds the lock of its stream from its start to its
\* end; the step in which the cancellation branch wins over a running loop
\* releases that lock, so that a closer waiting for the lock finds it free;
\* and a closer that waits for the lock eventually finishes its task, whose
\* end is then the forced close.
C18_CloserNeverBlocks ==
    /\ [](\A c \in Conns :
             /\ pc[c] \in InLoop => "loop" \in holders[c]
             /\ pc[c] = "closing" => holders[c] = {}
             /\ pc[c] = "shutting" => holders[c] = {"closer"})
    /\ [][(\A c \in Conns :
             /\ (pc[c] \in InLoop /\ pc'[c] = "closing") => holders'[c] = {}
             /\ (pc[c] = "shutting" /\ pc'[c] # "shutting") =>
                    pc'[c] = "done" /\ ended'[c] = "forced" /\ holders'[c] = {})]_vars
    /\ \A c \in Conns : (pc[c] = "closing") ~> (pc[c] = "done")
C18_Witness ==
    \E c \in Conns :
        /\ ended[c] = "forced"
        /\ Len(out[c]) = 1
        /\ holders[c] = {}
        /\ c \notin late


\* C19: while the signal is Active and run is in its loop, the loop waits for
\* a new connection, whatever the outcome of the accepts before: a connection
\* that is pending can be accepted and given a handler.
C19_KeepsAcceptingWhileActive ==
    (runPc = "loop" /\ token = "Active" /\ backlog # <<>>) => ENABLED Accept


\* The handler tasks that exist: spawned and not finished.
LiveTasks == {c \in Conns : pc[c] \in Live}

\* C20: the tracker holds exactly the handler tasks that exist, one for each
\* accepted connection whose task has not finished; a step that spawns a
\* handler spawns one, for the connection at the head of the listener's
\* queue, and registers it in the same step; no connection gets a second
\* task; run is past its loop exactly when the tracker is closed; and once
\* the tracker is closed no step spawns or registers a task.
C20_OneTrackedHandlerEach ==
    /\ [](/\ trackerLen = Cardinality(LiveTasks)
          /\ trackerClosed <=> runPc \in {"waiting", "returned"})
    /\ [][(/\ \A c \in Conns :
                (pc'[c] = "spawned" /\ pc[c] # "spawned") =>
                    /\ pc[c] = "none"
                    /\ backlog # <<>> /\ c = Head(backlog)
                    /\ backlog' = Tail(backlog)
                    /\ trackerLen' = trackerLen + 1
                    /\ LiveTasks' = LiveTasks \cup {c}
                    /\ ~trackerClosed
           /\ trackerClosed =>
                    /\ trackerClosed'
                    /\ LiveTasks' \subseteq LiveTasks
                    /\ trackerLen' <= trackerLen)]_vars
C20_Witness ==
    /\ runPc = "waiting"
    /\ trackerClosed
    /\ trackerLen = MaxConns - 1
    /\ \E c \in Conns : ended[c] = "shutdown"
    /\ backlog = <<>>

====
